---- MODULE Spec2Model ----
(***************************************************************************)
(* Model of the user-management microservice (app.py, dto.py, models.py):  *)
(* the CircuitBreaker class and its module-level instance, the tenacity    *)
(* retry decorators, and the create_customer request handler with its      *)
(* best-effort call to the login service.                                  *)
(***************************************************************************)
EXTENDS Integers, Sequences, FiniteSets, TLC

\* ---------------------------------------------------------------- bounds
MaxInvocations == 7      \* invocations of the guarded function, per run
MaxNow == 90             \* last instant of the clock
TickStep == 30           \* seconds the clock advances in one step
MaxRequests == 3         \* createcustomer requests received, per run
NumDocs == 2             \* distinct document values in the requests
GateRequests == 6        \* requests of the sequential (one worker) runs
GateDocs == 6            \* document values of the sequential runs
BackoffAttempts == 6     \* attempt numbers the wait is evaluated for
LiveRequests == 2        \* requests of the runs checked for termination

\* ------------------------------------------------------ program constants
failure_threshold == 5
recovery_timeout == 60
stop_after_attempt == 3
wait_multiplier == 1
wait_min == 2
wait_max == 10

Threads == {1, 2}
Reqs == {1, 2}

VARIABLES
    cb,           \* circuit_breaker: state, failure_count, last_failure_time
    now,          \* time.time()
    cpc,          \* per thread: position inside CircuitBreaker.call
    ctmp,         \* per thread: failure_count as read by "+= 1"
    cres,         \* per thread: how its last admitted call ended ("ok","err")
    cadm,         \* per thread: how its last admitted call was admitted
    crej,         \* per thread: its current/last call was rejected
    invocations,  \* times the guarded function was invoked
    allFailed,    \* every invocation so far raised
    store,        \* customer table: documents of the committed rows
    req,          \* per worker: the createcustomer request it is serving
    received,     \* requests received so far
    ok201,        \* documents for which a 201 was returned
    provFailStreak \* consecutive failed create_user_in_login_service calls

cbvars == <<cb, now, cpc, ctmp, cres, cadm, crej, invocations, allFailed>>
wfvars == <<store, req, received, ok201, provFailStreak>>
vars == <<cb, now, cpc, ctmp, cres, cadm, crej, invocations, allFailed,
          store, req, received, ok201, provFailStreak>>

Max(a, b) == IF a >= b THEN a ELSE b
Min(a, b) == IF a <= b THEN a ELSE b

\* ============================================================ CircuitBreaker

\* CircuitBreaker.__init__ ; last_failure_time None is the empty sequence
CircuitBreakerInit ==
    [state |-> "CLOSED", failure_count |-> 0, last_failure_time |-> <<>>]

RecoveryElapsedGE(b, t) ==
    b.last_failure_time # <<>> /\ t - b.last_failure_time[1] >= recovery_timeout

\* the comparison of line 181
RecoveryElapsed(b, t) ==
    b.last_failure_time # <<>> /\ t - b.last_failure_time[1] > recovery_timeout

Finish(t, outcome) ==
    /\ cpc' = [cpc EXCEPT ![t] = "idle"]
    /\ cres' = [cres EXCEPT ![t] = outcome]

\* a caller enters circuit_breaker.call(func)
CallEnter(t) ==
    /\ cpc[t] = "idle"
    /\ invocations < MaxInvocations
    /\ cpc' = [cpc EXCEPT ![t] = "L180"]
    /\ crej' = [crej EXCEPT ![t] = FALSE]
    /\ UNCHANGED <<cb, now, ctmp, cres, cadm, invocations, allFailed>>
    /\ UNCHANGED wfvars

\* the call is admitted: it will run func
Admit(t, how) ==
    /\ cpc' = [cpc EXCEPT ![t] = "L187"]
    /\ cadm' = [cadm EXCEPT ![t] = how]
    /\ cres' = [cres EXCEPT ![t] = "none"]

\* line 184: raise Exception("Circuit breaker is OPEN")
Reject(t) ==
    /\ cpc' = [cpc EXCEPT ![t] = "idle"]
    /\ crej' = [crej EXCEPT ![t] = TRUE]

\* line 180: if self.state == 'OPEN'
CheckOpen(t) ==
    /\ cpc[t] = "L180"
    /\ IF cb.state = "OPEN"
         THEN cpc' = [cpc EXCEPT ![t] = "L181"] /\ UNCHANGED <<cadm, cres>>
         ELSE Admit(t, IF cb.state = "HALF_OPEN" THEN "half" ELSE "closed")
    /\ UNCHANGED <<cb, now, ctmp, crej, invocations, allFailed>>
    /\ UNCHANGED wfvars

\* lines 181-184: the elapsed-time test; raise when not elapsed (a TypeError
\* when last_failure_time is None)
CheckElapsed(t) ==
    /\ cpc[t] = "L181"
    /\ IF cb.last_failure_time = <<>>
         THEN Finish(t, "TypeError") /\ UNCHANGED crej
         ELSE /\ IF RecoveryElapsed(cb, now)
                   THEN cpc' = [cpc EXCEPT ![t] = "L182"] /\ UNCHANGED crej
                   ELSE Reject(t)
              /\ UNCHANGED cres
    /\ UNCHANGED <<cb, now, ctmp, cadm, invocations, allFailed>>
    /\ UNCHANGED wfvars

\* line 182: self.state = 'HALF_OPEN'
SetHalfOpen(t) ==
    /\ cpc[t] = "L182"
    /\ cb' = [cb EXCEPT !.state = "HALF_OPEN"]
    /\ Admit(t, "trial")
    /\ UNCHANGED <<now, ctmp, crej, invocations, allFailed>>
    /\ UNCHANGED wfvars

\* line 187: result = func(*args, **kwargs), which returns
FuncReturns(t) ==
    /\ cpc[t] = "L187"
    /\ invocations' = invocations + 1
    /\ allFailed' = FALSE
    /\ cpc' = [cpc EXCEPT ![t] = "L188"]
    /\ UNCHANGED <<cb, now, ctmp, cres, cadm, crej>>
    /\ UNCHANGED wfvars

\* line 187: func raises
FuncRaises(t) ==
    /\ cpc[t] = "L187"
    /\ invocations' = invocations + 1
    /\ cpc' = [cpc EXCEPT ![t] = "L193"]
    /\ UNCHANGED <<cb, now, ctmp, cres, cadm, crej, allFailed>>
    /\ UNCHANGED wfvars

\* line 188: if self.state == 'HALF_OPEN' ... else line 191 return result
CheckHalfOpen(t) ==
    /\ cpc[t] = "L188"
    /\ IF cb.state = "HALF_OPEN"
         THEN cpc' = [cpc EXCEPT ![t] = "L189"] /\ UNCHANGED cres
         ELSE Finish(t, "ok")
    /\ UNCHANGED <<cb, now, ctmp, cadm, crej, invocations, allFailed>>
    /\ UNCHANGED wfvars

\* line 189: self.state = 'CLOSED'
SetClosed(t) ==
    /\ cpc[t] = "L189"
    /\ cb' = [cb EXCEPT !.state = "CLOSED"]
    /\ cpc' = [cpc EXCEPT ![t] = "L190"]
    /\ UNCHANGED <<now, ctmp, cres, cadm, crej, invocations, allFailed>>
    /\ UNCHANGED wfvars

ResetCountKeep(t) ==
    /\ cpc[t] = "L190"
    /\ Finish(t, "ok")
    /\ UNCHANGED <<cb, now, ctmp, cadm, crej, invocations, allFailed>>
    /\ UNCHANGED wfvars

\* lines 190-191: self.failure_count = 0 ; return result
ResetCount(t) ==
    /\ cpc[t] = "L190"
    /\ cb' = [cb EXCEPT !.failure_count = 0]
    /\ Finish(t, "ok")
    /\ UNCHANGED <<now, ctmp, cadm, crej, invocations, allFailed>>
    /\ UNCHANGED wfvars

\* line 193, first half of "self.failure_count += 1": the read
ReadCount(t) ==
    /\ cpc[t] = "L193"
    /\ ctmp' = [ctmp EXCEPT ![t] = cb.failure_count]
    /\ cpc' = [cpc EXCEPT ![t] = "L193w"]
    /\ UNCHANGED <<cb, now, cres, cadm, crej, invocations, allFailed>>
    /\ UNCHANGED wfvars

\* line 193, second half: the store of the incremented value
WriteCount(t) ==
    /\ cpc[t] = "L193w"
    /\ cb' = [cb EXCEPT !.failure_count = ctmp[t] + 1]
    /\ cpc' = [cpc EXCEPT ![t] = "L194"]
    /\ UNCHANGED <<now, ctmp, cres, cadm, crej, invocations, allFailed>>
    /\ UNCHANGED wfvars

\* line 193 executed without a thread switch between its read and its store
IncrementCount(t) ==
    /\ cpc[t] = "L193"
    /\ ctmp' = [ctmp EXCEPT ![t] = cb.failure_count]
    /\ cb' = [cb EXCEPT !.failure_count = @ + 1]
    /\ cpc' = [cpc EXCEPT ![t] = "L194"]
    /\ UNCHANGED <<now, cres, cadm, crej, invocations, allFailed>>
    /\ UNCHANGED wfvars

StampFailureSkip(t) ==
    /\ cpc[t] = "L194"
    /\ cpc' = [cpc EXCEPT ![t] = "L195"]
    /\ UNCHANGED <<cb, now, ctmp, cres, cadm, crej, invocations, allFailed>>
    /\ UNCHANGED wfvars

\* line 194: self.last_failure_time = time.time()
StampFailure(t) ==
    /\ cpc[t] = "L194"
    /\ cb' = [cb EXCEPT !.last_failure_time = <<now>>]
    /\ cpc' = [cpc EXCEPT ![t] = "L195"]
    /\ UNCHANGED <<now, ctmp, cres, cadm, crej, invocations, allFailed>>
    /\ UNCHANGED wfvars

ThresholdReached(n) == n >= failure_threshold

\* line 195: if self.failure_count >= self.failure_threshold ... else raise e
CheckThreshold(t) ==
    /\ cpc[t] = "L195"
    /\ IF ThresholdReached(cb.failure_count)
         THEN cpc' = [cpc EXCEPT ![t] = "L196"] /\ UNCHANGED cres
         ELSE Finish(t, "err")
    /\ UNCHANGED <<cb, now, ctmp, cadm, crej, invocations, allFailed>>
    /\ UNCHANGED wfvars

\* lines 196-197: self.state = 'OPEN' ; raise e
SetOpen(t) ==
    /\ cpc[t] = "L196"
    /\ cb' = [cb EXCEPT !.state = "OPEN"]
    /\ Finish(t, "err")
    /\ UNCHANGED <<now, ctmp, cadm, crej, invocations, allFailed>>
    /\ UNCHANGED wfvars

\* the wall clock advances
Tick ==
    /\ now + TickStep <= MaxNow
    /\ now' = now + TickStep
    /\ UNCHANGED <<cb, cpc, ctmp, cres, cadm, crej, invocations, allFailed>>
    /\ UNCHANGED wfvars

InitCB ==
    /\ cb = CircuitBreakerInit
    /\ now = 0
    /\ cpc = [t \in Threads |-> "idle"]
    /\ ctmp = [t \in Threads |-> 0]
    /\ cres = [t \in Threads |-> "none"]
    /\ cadm = [t \in Threads |-> "none"]
    /\ crej = [t \in Threads |-> FALSE]
    /\ invocations = 0
    /\ allFailed = TRUE


\* =================================================================== dto.py

Fields == {"document", "firstname", "lastname", "address", "phone", "email"}

\* the order of the checks of CustomerCreateDTO.validate, with their messages
FieldChecks ==
    << [field |-> "document",  msg |-> "Document is required"],
       [field |-> "firstname", msg |-> "First name is required"],
       [field |-> "lastname",  msg |-> "Last name is required"],
       [field |-> "address",   msg |-> "Address is required"],
       [field |-> "phone",     msg |-> "Phone is required"],
       [field |-> "email",     msg |-> "Email is required"] >>

\* "not self.<field>": the empty string is falsy
Falsy(v) == v = ""

RECURSIVE validateFrom(_, _)
validateFrom(dto, i) ==
    IF i > Len(FieldChecks) THEN <<>>
    ELSE (IF Falsy(dto[FieldChecks[i].field]) THEN <<FieldChecks[i].msg>> ELSE <<>>)
         \o validateFrom(dto, i + 1)

\* CustomerCreateDTO.validate
validate(dto) == validateFrom(dto, 1)

\* CustomerCreateDTO(**data): the dataclass constructor takes exactly the six
\* keyword arguments; a missing (or unknown) key is a TypeError
DtoConstructs(data) == DOMAIN data = Fields

\* ------------------------------------------------------------ request bodies
DocSet(n) == {"d" \o ToString(i) : i \in 1..n}

ValidBody(d) == [f \in Fields |-> IF f = "document" THEN d ELSE "x"]
WithEmpty(b, f) == [b EXCEPT ![f] = ""]
Without(b, f) == [g \in Fields \ {f} |-> b[g]]
AllEmpty == [f \in Fields |-> ""]

ValidBodies(docs) == {ValidBody(d) : d \in docs}
Bodies(docs) ==
    ValidBodies(docs)
    \cup {WithEmpty(ValidBody(d), f) : d \in docs, f \in Fields}
    \cup {Without(ValidBody(d), f) : d \in docs, f \in Fields}
    \cup {WithEmpty(WithEmpty(ValidBody(d), "firstname"), "email") : d \in docs}
    \cup {AllEmpty}

\* ================================================================= tenacity

\* wait_exponential(multiplier=1, min=2, max=10), for the attempt that failed
wait_exponential(attempt_number) ==
    Max(Max(0, wait_min), Min(wait_multiplier * 2^(attempt_number - 1), wait_max))

ShouldStopGT(attempt_number) == attempt_number > stop_after_attempt

\* stop_after_attempt(3)
ShouldStop(attempt_number) == attempt_number >= stop_after_attempt

\* what @retry raises once it stops: reraise is left at its default (False),
\* so the last attempt's exception is wrapped in a RetryError
retry_exhausted(lastErr) == [kind |-> "RetryError", last |-> lastErr]

NoError == [kind |-> "none", last |-> "none"]
Raised(k) == [kind |-> k, last |-> "none"]

\* ============================================================ create_customer

IdleReq ==
    [pc |-> "idle", body |-> <<>>, doc |-> "", status |-> 0, errors |-> <<>>,
     error |-> NoError, session |-> "none", late |-> FALSE,
     attempt |-> 0, waits |-> <<>>, lastErr |-> "none", committed |-> FALSE,
     queries |-> 0, pattempt |-> 0, pwaits |-> <<>>, resolutions |-> 0,
     posts |-> 0, prov |-> "none", dup |-> FALSE,
     fresh |-> FALSE, transient |-> FALSE]

RespondNoClose(rec, code) == [rec EXCEPT !.pc = "done", !.status = code]

\* the response is returned; "finally: session.close()" ran if a session was open
Respond(rec, code) ==
    [rec EXCEPT !.pc = "done", !.status = code,
                !.session = IF rec.session = "open" THEN "closed" ELSE rec.session]

\* lines 94-96: the outer except turns any exception into a 500
Respond500(rec, err) == [Respond(rec, 500) EXCEPT !.error = err]

\* lines 55-62: parse the body, build the DTO, validate, open the session
Receive(r, bodies, maxreq) ==
    /\ req[r].pc = "idle"
    /\ received < maxreq
    /\ received' = received + 1
    /\ \E data \in bodies :
         LET rec == [IdleReq EXCEPT !.body = data] IN
         req' = [req EXCEPT ![r] =
            IF ~DtoConstructs(data)
              THEN Respond500(rec, Raised("TypeError"))
            ELSE IF validate(data) # <<>>
              THEN [Respond(rec, 400) EXCEPT !.errors = validate(data)]
            ELSE [rec EXCEPT !.pc = "query", !.doc = data["document"],
                             !.session = "open",
                             !.late = data["document"] \in ok201,
                             !.fresh = data["document"] \notin store]]
    /\ UNCHANGED <<store, ok201, provFailStreak>>
    /\ UNCHANGED cbvars

QueryRunsNoCheck(r) ==
    /\ req[r].pc = "query"
    /\ req' = [req EXCEPT ![r] =
          [req[r] EXCEPT !.queries = @ + 1, !.pc = "save", !.attempt = 1]]
    /\ UNCHANGED <<store, received, ok201, provFailStreak>>
    /\ UNCHANGED cbvars

\* lines 64-66: the uniqueness query runs
QueryRuns(r) ==
    /\ req[r].pc = "query"
    /\ LET rec == [req[r] EXCEPT !.queries = @ + 1] IN
       req' = [req EXCEPT ![r] =
          IF rec.doc \in store
            THEN Respond(rec, 409)
            ELSE [rec EXCEPT !.pc = "save", !.attempt = 1]]
    /\ UNCHANGED <<store, received, ok201, provFailStreak>>
    /\ UNCHANGED cbvars

\* line 64: the query raises (the database is unreachable)
QueryRaises(r) ==
    /\ req[r].pc = "query"
    /\ req' = [req EXCEPT ![r] =
          Respond500([req[r] EXCEPT !.queries = @ + 1, !.transient = TRUE],
                     Raised("OperationalError"))]
    /\ UNCHANGED <<store, received, ok201, provFailStreak>>
    /\ UNCHANGED cbvars

SaveFailedProceeds(rec0, err) ==
    LET rec == [rec0 EXCEPT !.lastErr = err,
                            !.transient = @ \/ err = "OperationalError"] IN
    IF ShouldStop(rec.attempt)
      THEN [rec EXCEPT !.pc = "provision", !.pattempt = 1]
      ELSE [rec EXCEPT !.waits = Append(@, wait_exponential(rec.attempt)),
                       !.attempt = @ + 1]

\* execute_with_retry: an attempt of save_customer raised err
SaveFailed(rec0, err) ==
    LET rec == [rec0 EXCEPT !.lastErr = err,
                            !.transient = @ \/ err = "OperationalError"] IN
    IF ShouldStop(rec.attempt)
      THEN Respond500(rec, retry_exhausted(err))
      ELSE [rec EXCEPT !.waits = Append(@, wait_exponential(rec.attempt)),
                       !.attempt = @ + 1]

\* execute_with_retry: an attempt of save_customer returned
SaveDone(rec) == [rec EXCEPT !.pc = "provision", !.pattempt = 1]

\* lines 78-80: add, commit (the row is inserted), then refresh returns or raises
SaveCommits(r) ==
    /\ req[r].pc = "save"
    /\ ~req[r].committed
    /\ req[r].doc \notin store
    /\ store' = store \cup {req[r].doc}
    /\ \E refreshed \in BOOLEAN :
         LET rec == [req[r] EXCEPT !.committed = TRUE] IN
         req' = [req EXCEPT ![r] =
            IF refreshed THEN SaveDone(rec) ELSE SaveFailed(rec, "OperationalError")]
    /\ UNCHANGED <<received, ok201, provFailStreak>>
    /\ UNCHANGED cbvars

\* line 79: commit raises and the transaction is rolled back: the primary key
\* (models.py line 10) rejects a second row, or the database fails
SaveCommitRaises(r) ==
    /\ req[r].pc = "save"
    /\ ~req[r].committed
    /\ \E err \in {"IntegrityError", "OperationalError"} :
         /\ err = "IntegrityError" => req[r].doc \in store
         /\ req' = [req EXCEPT ![r] = SaveFailed(req[r], err)]
    /\ UNCHANGED <<store, received, ok201, provFailStreak>>
    /\ UNCHANGED cbvars

\* a retried save_customer after the row was committed: add and commit have
\* nothing to write; the attempt returns or raises with the row in place
SaveAgain(r) ==
    /\ req[r].pc = "save"
    /\ req[r].committed
    /\ \E succeeded \in BOOLEAN :
         req' = [req EXCEPT ![r] =
            IF succeeded THEN SaveDone(req[r])
                         ELSE SaveFailed(req[r], "OperationalError")]
    /\ UNCHANGED <<store, received, ok201, provFailStreak>>
    /\ UNCHANGED cbvars

\* get_service_url: the registry call raises, returns no instance, or returns
\* instances, of which the first is taken; None in the first two cases
get_service_url(registry) == IF registry = "instances" THEN "url" ELSE "None"

Respond201Propagate(rec, outcome) ==
    IF outcome = "failed"
      THEN Respond500([rec EXCEPT !.prov = outcome], retry_exhausted("HTTPError"))
      ELSE [Respond(rec, 201) EXCEPT !.prov = outcome, !.dup = rec.doc \in ok201]

\* lines 84-89: create_user_in_login_service returned or its exception was
\* caught and logged; the handler returns 201
Respond201(rec, outcome) ==
    [Respond(rec, 201) EXCEPT !.prov = outcome, !.dup = rec.doc \in ok201]

Returned201(r, outcome) ==
    /\ req' = [req EXCEPT ![r] =
                 Respond201([req[r] EXCEPT !.resolutions = @ + 1,
                                           !.posts = IF outcome = "skipped"
                                                       THEN @ ELSE @ + 1],
                            outcome)]
    /\ ok201' = ok201 \cup {req[r].doc}
    /\ provFailStreak' = IF outcome = "failed" THEN provFailStreak + 1 ELSE 0

\* lines 140-141: get_service_url gave None, "if login_service_url:" is false
\* and the function returns without a POST and without raising
ProvisionUnresolved(r) ==
    /\ req[r].pc = "provision"
    /\ \E registry \in {"raises", "empty"} :
         get_service_url(registry) = "None"
    /\ Returned201(r, "skipped")
    /\ UNCHANGED <<store, received>>
    /\ UNCHANGED cbvars

\* lines 142-147: the POST answers 2xx
ProvisionPosts(r) ==
    /\ req[r].pc = "provision"
    /\ get_service_url("instances") # "None"
    /\ Returned201(r, "created")
    /\ UNCHANGED <<store, received>>
    /\ UNCHANGED cbvars

\* lines 142-150: the POST times out, fails or answers non-2xx: the attempt
\* raises and @retry waits and retries, or stops with its RetryError, which
\* create_customer catches at line 86
ProvisionPostRaises(r) ==
    /\ req[r].pc = "provision"
    /\ get_service_url("instances") # "None"
    /\ IF ShouldStop(req[r].pattempt)
         THEN Returned201(r, "failed")
         ELSE /\ req' = [req EXCEPT ![r] =
                    [req[r] EXCEPT !.resolutions = @ + 1, !.posts = @ + 1,
                                   !.pwaits = Append(@, wait_exponential(req[r].pattempt)),
                                   !.pattempt = @ + 1]]
              /\ UNCHANGED <<ok201, provFailStreak>>
    /\ UNCHANGED <<store, received>>
    /\ UNCHANGED cbvars

\* the worker is free for the next request
Release(r) ==
    /\ req[r].pc = "done"
    /\ req' = [req EXCEPT ![r] = IdleReq]
    /\ UNCHANGED <<store, received, ok201, provFailStreak>>
    /\ UNCHANGED cbvars

InitWF ==
    /\ store = {}
    /\ req = [r \in Reqs |-> IdleReq]
    /\ received = 0
    /\ ok201 = {}
    /\ provFailStreak = 0

Init == InitCB /\ InitWF

\* ------------------------------------------------------------ specifications

\* concurrent createcustomer requests, one worker each
Next ==
    \E r \in Reqs :
        \/ Receive(r, Bodies(DocSet(NumDocs)), MaxRequests)
        \/ QueryRuns(r)
        \/ QueryRaises(r)
        \/ SaveCommits(r)
        \/ SaveCommitRaises(r)
        \/ SaveAgain(r)
        \/ ProvisionUnresolved(r)
        \/ ProvisionPosts(r)
        \/ ProvisionPostRaises(r)
        \/ Release(r)

Spec == Init /\ [][Next]_vars

\* createcustomer requests one after the other, each with valid input
NextGate ==
    \/ Receive(1, ValidBodies(DocSet(GateDocs)), GateRequests)
    \/ QueryRuns(1)
    \/ QueryRaises(1)
    \/ SaveCommits(1)
    \/ SaveCommitRaises(1)
    \/ SaveAgain(1)
    \/ ProvisionUnresolved(1)
    \/ ProvisionPosts(1)
    \/ ProvisionPostRaises(1)
    \/ Release(1)

SpecGate == Init /\ [][NextGate]_vars

\* calls of circuit_breaker.call one after the other
NextCBSeq ==
    \/ CallEnter(1)
    \/ CheckOpen(1)
    \/ CheckElapsed(1)
    \/ SetHalfOpen(1)
    \/ FuncReturns(1)
    \/ FuncRaises(1)
    \/ CheckHalfOpen(1)
    \/ SetClosed(1)
    \/ ResetCount(1)
    \/ ReadCount(1)
    \/ WriteCount(1)
    \/ StampFailure(1)
    \/ CheckThreshold(1)
    \/ SetOpen(1)
    \/ Tick

SpecCBSeq == Init /\ [][NextCBSeq]_vars

\* concurrent callers of circuit_breaker.call
NextCB ==
    \/ \E t \in Threads :
        \/ CallEnter(t)
        \/ CheckOpen(t)
        \/ CheckElapsed(t)
        \/ SetHalfOpen(t)
        \/ FuncReturns(t)
        \/ FuncRaises(t)
        \/ CheckHalfOpen(t)
        \/ SetClosed(t)
        \/ ResetCount(t)
        \/ ReadCount(t)
        \/ WriteCount(t)
        \/ StampFailure(t)
        \/ CheckThreshold(t)
        \/ SetOpen(t)
    \/ Tick

SpecCB == Init /\ [][NextCB]_vars

\* concurrent callers, "self.failure_count += 1" taken as one step
NextCBAtomic ==
    \/ \E t \in Threads :
        \/ CallEnter(t)
        \/ CheckOpen(t)
        \/ CheckElapsed(t)
        \/ SetHalfOpen(t)
        \/ FuncReturns(t)
        \/ FuncRaises(t)
        \/ CheckHalfOpen(t)
        \/ SetClosed(t)
        \/ ResetCount(t)
        \/ IncrementCount(t)
        \/ StampFailure(t)
        \/ CheckThreshold(t)
        \/ SetOpen(t)
    \/ Tick

SpecCBAtomic == Init /\ [][NextCBAtomic]_vars

\* a worker in the middle of a request takes its next step: every blocking
\* call of the handler returns or raises
Step(r) ==
    \/ QueryRuns(r)
    \/ QueryRaises(r)
    \/ SaveCommits(r)
    \/ SaveCommitRaises(r)
    \/ SaveAgain(r)
    \/ ProvisionUnresolved(r)
    \/ ProvisionPosts(r)
    \/ ProvisionPostRaises(r)

NextLive ==
    \E r \in Reqs :
        \/ Receive(r, Bodies(DocSet(NumDocs)), LiveRequests)
        \/ Step(r)
        \/ Release(r)

SpecLive == Init /\ [][NextLive]_vars /\ \A r \in Reqs : WF_vars(Step(r))

\* ===================================================================== claims

Done(r) == req[r].pc = "done"
WriteSucceeded(r) == req[r].pattempt >= 1
WithinRecovery ==
    cb.last_failure_time # <<>> /\ now - cb.last_failure_time[1] <= recovery_timeout
Recording == {"L193", "L193w", "L194", "L195", "L196"}
NotAdmitted == {"idle", "L180", "L181"}

\* C1: a request with valid input whose document was not stored and whose
\* store write succeeded answers 201 whatever the provisioning does (no
\* instance, registry error, POST failing on every attempt), and the row of a
\* document answered with 201 stays in the store.
C1_ProvisioningIsolated ==
    /\ \A r \in Reqs :
         WriteSucceeded(r) =>
            /\ req[r].doc \in store
            /\ Done(r) => /\ req[r].status = 201
                          /\ req[r].prov \in {"skipped", "created", "failed"}
    /\ ok201 \subseteq store

C1_Witness ==
    \E r \in Reqs :
        /\ Done(r) /\ req[r].status = 201
        /\ req[r].prov = "failed" /\ req[r].posts = stop_after_attempt
        /\ req[r].doc \in store

\* C2: after failure_threshold (5) calls whose function raised, starting from
\* the constructed breaker, a further call made while
\* now - last_failure_time <= recovery_timeout is not admitted: the breaker is
\* OPEN, the call never reaches the function and the invocation count stays 5.
C2_SixthCallRejected ==
    (allFailed /\ invocations = failure_threshold /\ cpc[1] \notin Recording
       /\ WithinRecovery)
    => /\ cb.state = "OPEN"
       /\ cb.failure_count = failure_threshold
       /\ cpc[1] \in NotAdmitted

C2_Witness ==
    /\ allFailed /\ invocations = failure_threshold
    /\ cpc[1] = "idle" /\ crej[1]
    /\ cb.state = "OPEN"
    /\ now - cb.last_failure_time[1] = recovery_timeout

\* C3: an OPEN breaker admits a call as the HALF_OPEN trial only once more
\* than recovery_timeout has passed since the last failure; the breaker is
\* HALF_OPEN only while that one trial is in flight; a trial that returned
\* leaves the breaker CLOSED with failure count 0; a trial that raised leaves
\* it OPEN, and a later call within recovery_timeout of that failure is not
\* admitted.
C3_Recovery ==
    /\ cpc[1] = "L182" => cb.state = "OPEN" /\ ~WithinRecovery
    /\ cb.state = "HALF_OPEN" =>
          cadm[1] = "trial" /\ cpc[1] \in {"L187", "L188", "L189"} \cup Recording
    /\ (cpc[1] = "idle" /\ cadm[1] = "trial" /\ cres[1] = "ok") =>
          cb.state = "CLOSED" /\ cb.failure_count = 0
    /\ (cpc[1] = "idle" /\ cadm[1] = "trial" /\ cres[1] = "err") =>
          cb.state = "OPEN"
    /\ (cadm[1] = "trial" /\ cres[1] = "err" /\ WithinRecovery) =>
          cpc[1] \in NotAdmitted

C3_Witness ==
    /\ cadm[1] = "trial" /\ cres[1] = "err"
    /\ cpc[1] = "idle" /\ crej[1]
    /\ cb.state = "OPEN"
    /\ invocations = failure_threshold + 1

\* C4: of the callers running concurrently on one breaker, at most one at a
\* time is admitted to the function as the HALF_OPEN trial.
InTrial(t) == cpc[t] = "L187" /\ cadm[t] \in {"trial", "half"}

C4_SingleTrial ==
    \A t, u \in Threads : (InTrial(t) /\ InTrial(u)) => t = u

\* C5: the provisioning call is gated by the breaker: once failure_threshold
\* consecutive provisioning calls have failed the breaker is OPEN and a
\* later request does no resolution and no POST.
C5_ProvisioningGated ==
    provFailStreak >= failure_threshold =>
       /\ cb.state = "OPEN"
       /\ \A r \in Reqs : ~Done(r) => req[r].resolutions = 0 /\ req[r].posts = 0

\* C6 as stated: once a 201 was returned for a document, every later request
\* with that document returns 409 and writes nothing.
C6_LaterRequestIs409 ==
    \A r \in Reqs :
        (Done(r) /\ req[r].late) => req[r].status = 409 /\ ~req[r].committed

\* C6 as amended: at most one request per document returns 201; a request
\* received after a 201 for its document returns 409, or 500 when the
\* uniqueness query itself raised, never 201, and never reaches the write.
C6_AtMostOne201 ==
    \A r \in Reqs :
        /\ (Done(r) /\ req[r].status = 201) => ~req[r].dup
        /\ req[r].late =>
              /\ req[r].attempt = 0 /\ ~req[r].committed
              /\ req[r].doc \in store
              /\ Done(r) =>
                    \/ req[r].status = 409 /\ req[r].error = NoError
                    \/ req[r].status = 500 /\ req[r].error = Raised("OperationalError")

C6_Witness ==
    \E r \in Reqs : Done(r) /\ req[r].late /\ req[r].status = 409

\* C7: of the requests with the same document and valid input that ran
\* concurrently (the document was in the store when neither was received),
\* with no database failure, exactly one returns 201 and every other one 409.
C7_ConcurrentCreateConflict ==
    \A r1, r2 \in Reqs :
        (/\ r1 # r2 /\ Done(r1) /\ Done(r2)
         /\ req[r1].queries > 0 /\ req[r2].queries > 0
         /\ req[r1].doc = req[r2].doc
         /\ req[r1].fresh /\ req[r2].fresh
         /\ ~req[r1].transient /\ ~req[r2].transient)
        => \/ req[r1].status = 201 /\ req[r2].status = 409
           \/ req[r1].status = 409 /\ req[r2].status = 201

\* C8: a request in which a required field is missing or empty ends with 400,
\* its error list names every such field, and it does no store query, no
\* write and no provisioning call.
MissingOrEmpty(body) == {f \in Fields : f \notin DOMAIN body \/ body[f] = ""}
Required(f) == (CHOOSE i \in DOMAIN FieldChecks : FieldChecks[i].field = f)
Named(errors) == {errors[i] : i \in DOMAIN errors}

C8_ValidationRejects ==
    \A r \in Reqs :
        (Done(r) /\ MissingOrEmpty(req[r].body) # {}) =>
            /\ req[r].status = 400
            /\ Named(req[r].errors) =
                  {FieldChecks[Required(f)].msg : f \in MissingOrEmpty(req[r].body)}
            /\ req[r].queries = 0 /\ ~req[r].committed
            /\ req[r].resolutions = 0 /\ req[r].posts = 0

\* C9: an operation under @retry that raises on every attempt is invoked
\* exactly 3 times; the wait after attempt n is
\* max(minWait, min(maxWait, multiplier * 2^(n-1))) = 2, 2, 4, 8, 10, 10, ...:
\* non-decreasing and never above maxWait.
ClaimedWait(n) ==
    LET e == wait_multiplier * 2^(n - 1)
        capped == IF e > wait_max THEN wait_max ELSE e
    IN  IF capped < wait_min THEN wait_min ELSE capped

WaitsAsClaimed(ws, attempts) ==
    /\ Len(ws) = attempts - 1
    /\ \A n \in DOMAIN ws : ws[n] = ClaimedWait(n) /\ ws[n] <= wait_max
    /\ \A n \in DOMAIN ws : n > 1 => ws[n - 1] <= ws[n]

C9_RetryThreeTimes ==
    /\ \A r \in Reqs :
         /\ req[r].attempt <= stop_after_attempt
         /\ req[r].pattempt <= stop_after_attempt
         /\ req[r].attempt >= 1 => WaitsAsClaimed(req[r].waits, req[r].attempt)
         /\ req[r].pattempt >= 1 => WaitsAsClaimed(req[r].pwaits, req[r].pattempt)
         /\ (Done(r) /\ req[r].error.kind = "RetryError") =>
               req[r].attempt = stop_after_attempt
         /\ req[r].prov = "failed" =>
               /\ req[r].pattempt = stop_after_attempt
               /\ req[r].posts = stop_after_attempt
               /\ req[r].resolutions = stop_after_attempt
    /\ \A n \in 1..BackoffAttempts :
         /\ wait_exponential(n) = ClaimedWait(n)
         /\ wait_exponential(n) <= wait_max
         /\ n > 1 => wait_exponential(n - 1) <= wait_exponential(n)

C9_Witness ==
    \E r, q \in Reqs :
        /\ Done(r) /\ req[r].error.kind = "RetryError"
        /\ req[r].attempt = stop_after_attempt /\ req[r].waits = <<2, 2>>
        /\ req[q].prov = "failed" /\ req[q].pwaits = <<2, 2>>

\* C10: when every attempt of the retried store write raised, the error the
\* caller of execute_with_retry gets is the last attempt's error itself, not
\* a retry-exhausted error wrapping it.
C10_LastErrorSurfaced ==
    \A r \in Reqs :
        (Done(r) /\ req[r].attempt = stop_after_attempt /\ req[r].status = 500)
        => req[r].error.kind = req[r].lastErr

\* C11: every call of CircuitBreaker.call either runs the function exactly
\* once and hands its result or its error to the caller, or raises the
\* circuit-open error without running it; it is rejected only when the
\* breaker is OPEN and now - last_failure_time <= recovery_timeout.
RejectedNow(t) == ~crej[t] /\ crej'[t]
ReturnsNow(t) == cpc[t] # "idle" /\ cpc'[t] = "idle" /\ ~crej'[t]

C11_CallContract ==
    [][\A t \in Threads :
         /\ RejectedNow(t) =>
               /\ cb.state = "OPEN" /\ WithinRecovery
               /\ cpc[t] = "L181" /\ invocations' = invocations
         /\ ReturnsNow(t) =>
               /\ cpc[t] \in {"L188", "L190", "L195", "L196"}
               /\ cres'[t] = IF cpc[t] \in {"L188", "L190"} THEN "ok" ELSE "err"
         /\ (cpc[t] = "L187" /\ cpc'[t] # "L187") =>
               invocations' = invocations + 1 /\ cpc'[t] \in {"L188", "L193"}]_vars

\* C12: a provisioning attempt whose service resolution failed (no instance,
\* or the registry call raised) is a failure: the call is retried and, unless
\* a later attempt posts, ends as a failed provisioning after the third
\* attempt; it is never reported as a provisioning that returned normally.
ResolutionFailed(r) == req[r].resolutions > req[r].posts

C12_UnresolvedIsFailure ==
    \A r \in Reqs :
        ResolutionFailed(r) =>
            /\ req[r].prov # "skipped"
            /\ Done(r) => \/ req[r].prov = "created"
                          \/ /\ req[r].prov = "failed"
                             /\ req[r].pattempt = stop_after_attempt

\* C13: when the store write still fails after its retries, the request ends
\* with 500 and no resolution and no provisioning call was made; a
\* resolution or a POST happens only after this request's write returned
\* with its row committed.
C13_NoProvisioningWithoutWrite ==
    \A r \in Reqs :
        /\ (Done(r) /\ req[r].attempt >= 1 /\ ~WriteSucceeded(r)) =>
              /\ req[r].status = 500
              /\ req[r].error # NoError
              /\ req[r].attempt = stop_after_attempt
        /\ ~WriteSucceeded(r) =>
              /\ req[r].resolutions = 0 /\ req[r].posts = 0
              /\ req[r].prov = "none" /\ req[r].status # 201
        /\ WriteSucceeded(r) => req[r].committed /\ req[r].doc \in store

C13_Witness ==
    \E r \in Reqs :
        /\ Done(r) /\ req[r].status = 500 /\ req[r].error.kind = "RetryError"
        /\ ~req[r].committed /\ req[r].doc \notin store
        /\ req[r].resolutions = 0 /\ req[r].posts = 0

\* C14: validation and conflict failures are never retried: a request that
\* ends with 400 or 409 did its failing step once and waited for no backoff,
\* and a duplicate-key failure raised by the store write itself is not
\* retried either.
C14_DeterministicNotRetried ==
    \A r \in Reqs :
        /\ (Done(r) /\ req[r].status \in {400, 409}) =>
              /\ req[r].queries <= 1 /\ req[r].attempt = 0
              /\ req[r].waits = <<>> /\ req[r].pwaits = <<>>
        /\ (req[r].lastErr = "IntegrityError" /\ ~req[r].transient) =>
              /\ req[r].attempt = 1 /\ req[r].waits = <<>>

\* C15: whenever a function admitted while the breaker was HALF_OPEN raises,
\* the breaker is OPEN when that call returns, whatever the failure count.
C15_HalfOpenFailureReopens ==
    [][\A t \in Threads :
         (/\ cpc[t] \in {"L195", "L196"} /\ cpc'[t] = "idle"
          /\ cadm[t] \in {"trial", "half"})
         => cb'.state = "OPEN"]_vars

\* C16: the failure count is set to 0 exactly on a transition into CLOSED:
\* the call that made the transition leaves the count at 0 with the breaker
\* CLOSED, and no other step lowers the count; a call that returns while
\* the breaker is CLOSED changes nothing.
C16_ResetOnlyOnClose ==
    [][/\ cb'.failure_count < cb.failure_count =>
            /\ cb'.failure_count = 0
            /\ cb.state = "CLOSED" /\ cb'.state = "CLOSED"
            /\ \E t \in Threads : cpc[t] = "L190" /\ cpc'[t] = "idle"
       /\ (cb'.state = "CLOSED" /\ cb.state # "CLOSED") =>
            \E t \in Threads : cpc[t] = "L189" /\ cpc'[t] = "L190"
       /\ \A t \in Threads :
            (cpc[t] = "L188" /\ cpc'[t] = "idle") => cb' = cb]_vars

\* C17: an OPEN breaker always has last_failure_time set, so the elapsed-time
\* test of line 181 never reads None.
C17_OpenHasTimestamp ==
    /\ cb.state = "OPEN" => cb.last_failure_time # <<>>
    /\ \A t \in Threads :
         /\ cpc[t] \in {"L181", "L182"} => cb.last_failure_time # <<>>
         /\ cres[t] # "TypeError"

C17_Witness ==
    \E t, u \in Threads :
        /\ t # u /\ cb.state = "OPEN" /\ cpc[t] = "L181"
        /\ cpc[u] \in Recording /\ cb.last_failure_time = <<now>>

\* C18: under any interleaving of calls, a breaker that is OPEN or HALF_OPEN
\* has a failure count of at least failure_threshold.
C18_OpenMeansThreshold ==
    cb.state \in {"OPEN", "HALF_OPEN"} => cb.failure_count >= failure_threshold

\* C19: a request returns 201 if and only if it committed its customer row:
\* a request answered 400, 409 or 500 left no row of its own in the store.
C19_RowIffCreated ==
    \A r \in Reqs :
        Done(r) => /\ req[r].status = 201 <=> req[r].committed
                   /\ req[r].status \in {400, 409, 500} => ~req[r].committed

\* C20: every request ends with exactly one response out of 400, 409, 201,
\* 500, after at most 3 store write attempts and at most 3 provisioning
\* attempts, each with one resolution and at most one POST, and with the
\* session it opened closed.
InFlight(r) == req[r].pc \in {"query", "save", "provision"}

C20_Bounded ==
    \A r \in Reqs :
        /\ req[r].attempt <= stop_after_attempt
        /\ req[r].pattempt <= stop_after_attempt
        /\ req[r].resolutions <= stop_after_attempt
        /\ req[r].posts <= req[r].resolutions
        /\ InFlight(r) => req[r].session = "open" /\ req[r].status = 0
        /\ req[r].pc = "provision" => req[r].resolutions = req[r].pattempt - 1
        /\ Done(r) =>
              /\ req[r].status \in {400, 409, 201, 500}
              /\ req[r].session \in {"none", "closed"}
              /\ req[r].session = "closed" <=> req[r].queries > 0
              /\ req[r].resolutions <= req[r].pattempt

C20_Terminates ==
    /\ []C20_Bounded
    /\ \A r \in Reqs : InFlight(r) ~> Done(r)

C20_Witness ==
    \E r \in Reqs :
        /\ Done(r) /\ req[r].status = 201 /\ req[r].session = "closed"
        /\ req[r].attempt = stop_after_attempt
        /\ req[r].pattempt = stop_after_attempt
        /\ req[r].posts = stop_after_attempt
====
